---- MODULE Spec2Model ----
(***************************************************************************)
(* Model of app.py: the Wikipedia pageview comparison notebook.            *)
(*                                                                         *)
(*   extract_page_title   URL -> page title (or None)                      *)
(*   fetch_pageviews      one HTTP GET per page -> DataFrame of records    *)
(*   analyze_wiki_pages   extract, fetch A, fetch B, empty check, merge,   *)
(*                        seed the process-wide generator, derive shares   *)
(*                                                                         *)
(* Strings are sequences of character codes (47 = "/", 37 = "%", ...), so  *)
(* that startswith, split and unquote are computed as Python computes     *)
(* them.  Dates are integers yyyymmdd.  A DataFrame is a sequence of rows. *)
(*                                                                         *)
(* Library behaviour the model relies on:                                  *)
(*   - pd.merge(how="outer") leaves NaN where a frame has no row for a     *)
(*     date, and Series.astype(int) raises on a column holding NaN;        *)
(*   - two frames renamed to the same views column get suffixed columns    *)
(*     from the merge, so the lookup of the unsuffixed name raises;        *)
(*   - numpy.random is one deterministic stream per process: seed() sets   *)
(*     its state, randint() consumes it value by value.                    *)
(*                                                                         *)
(* Spec         invocations one after the other, with other use of the     *)
(*              generator in between                                       *)
(* SpecConc     two overlapping invocations                                *)
(* SpecExtract  extract_page_title applied to one URL                      *)
(***************************************************************************)
EXTENDS Integers, Sequences, FiniteSets, TLC

(***************************************************************************)
(* Bounds of the model.                                                    *)
(***************************************************************************)
\* Number of pieces a URL examined by extract_page_title is built from.
MaxPieces == 4
\* Number of calendar days the upstream has data for.
NumDates == 3
\* Longest items list of a well-formed upstream response.
MaxLen == 2

(***************************************************************************)
(* Sequence helpers.                                                       *)
(***************************************************************************)
\* str.startswith
StartsWith(s, p) == Len(s) >= Len(p) /\ SubSeq(s, 1, Len(p)) = p

\* s[from:] with a 1-based first index
Drop(s, from) == SubSeq(s, from, Len(s))

\* str.find(p): the first index at which p occurs in s, 0 if it does not
Find(s, p) ==
    LET hits == {i \in 1..(Len(s) - Len(p) + 1) : SubSeq(s, i, i + Len(p) - 1) = p}
    IN  IF hits = {} THEN 0 ELSE CHOOSE i \in hits : \A j \in hits : i <= j

\* the first index at which one of the characters cs occurs in s, 0 if none
FindAny(s, cs) ==
    LET hits == {i \in 1..Len(s) : s[i] \in cs}
    IN  IF hits = {} THEN 0 ELSE CHOOSE i \in hits : \A j \in hits : i <= j

(***************************************************************************)
(* extract_page_title                                                      *)
(***************************************************************************)
\* Python's None, as a title: no title holds the code -1
None == <<-1>>

\* "/wiki/"
WikiPrefix == <<47, 119, 105, 107, 105, 47>>

IsAlpha(c) == c \in (65..90) \cup (97..122)
IsSchemeChar(c) == IsAlpha(c) \/ c \in (48..57) \/ c \in {43, 45, 46}

\* urlsplit: the URL without its "scheme:" when it has one
StripScheme(url) ==
    LET i == Find(url, <<58>>)
    IN  IF i > 1 /\ IsAlpha(url[1]) /\ \A j \in 1..(i - 1) : IsSchemeChar(url[j])
        THEN Drop(url, i + 1)
        ELSE url

\* urlsplit: the URL without its "//netloc" when it has one
StripNetloc(rest) ==
    IF StartsWith(rest, <<47, 47>>)
    THEN LET tail == Drop(rest, 3)
             d == FindAny(tail, {47, 63, 35})
         IN  IF d = 0 THEN <<>> ELSE Drop(tail, d)
    ELSE rest

\* urlparse(url).path: what is left up to the first "?" or "#"
UrlPath(url) ==
    LET rest == StripNetloc(StripScheme(url))
        d == FindAny(rest, {63, 35})
    IN  IF d = 0 THEN rest ELSE SubSeq(rest, 1, d - 1)

IsHex(c) == c \in (48..57) \cup (65..70) \cup (97..102)
HexVal(c) == IF c \in 48..57 THEN c - 48 ELSE IF c \in 65..70 THEN c - 55 ELSE c - 87

\* urllib.parse.unquote: %XY becomes the character 16*X+Y; a "%" that is not
\* followed by two hex digits stays.  (Codes above 127 would need UTF-8
\* decoding; the URLs below produce none.)
RECURSIVE unquote(_)
unquote(s) ==
    IF s = <<>> THEN <<>>
    ELSE IF s[1] = 37 /\ Len(s) >= 3 /\ IsHex(s[2]) /\ IsHex(s[3])
         THEN <<16 * HexVal(s[2]) + HexVal(s[3])>> \o unquote(Drop(s, 4))
         ELSE <<s[1]>> \o unquote(Drop(s, 2))

\* path.split("/wiki/")[1] for a path that starts with "/wiki/": the text
\* between the leading "/wiki/" and the next occurrence of "/wiki/"
SplitSecond(path) ==
    LET after == Drop(path, Len(WikiPrefix) + 1)
        j == Find(after, WikiPrefix)
    IN  IF j = 0 THEN after ELSE SubSeq(after, 1, j - 1)

\* a variant that keeps the whole remainder of the path
SplitRemainder(path) == Drop(path, Len(WikiPrefix) + 1)

extract_page_title(url) ==
    LET path == UrlPath(url)
    IN  IF StartsWith(path, WikiPrefix) THEN unquote(SplitSecond(path)) ELSE None

(***************************************************************************)
(* The URLs extract_page_title is examined on: "http://e" or nothing,      *)
(* followed by up to MaxPieces of "/wiki/", "A", "%44", "%4", "/", "?".    *)
(***************************************************************************)
Hosts == {<<>>, <<104, 116, 116, 112, 58, 47, 47, 101>>}
Pieces == {WikiPrefix, <<65>>, <<37, 52, 52>>, <<37, 52>>, <<47>>, <<63>>}

RECURSIVE Concats(_)
Concats(n) ==
    IF n = 0 THEN {<<>>}
    ELSE Concats(n - 1) \cup {s \o p : s \in Concats(n - 1), p \in Pieces}

URLs == {h \o s : h \in Hosts, s \in Concats(MaxPieces)}

\* The URLs given to analyze_wiki_pages: "http://e/wiki/A" (title "A"),
\* "/wiki/%44" (title "D"), "http://e/A" (no title), "http://e/wiki/" (title "")
PipelineURLs ==
    { <<104, 116, 116, 112, 58, 47, 47, 101>> \o WikiPrefix \o <<65>>,
      WikiPrefix \o <<37, 52, 52>>,
      <<104, 116, 116, 112, 58, 47, 47, 101, 47, 65>>,
      <<104, 116, 116, 112, 58, 47, 47, 101>> \o WikiPrefix }

\* The page titles those URLs yield: "A" and "D"
PageTitles == {<<65>>, <<68>>}

(***************************************************************************)
(* The upstream metrics service.                                           *)
(***************************************************************************)
\* Days of January 2022
Dates == 1..NumDates

\* The "timestamp" of an item: "YYYYMMDD00", here 20220100 + day, then "00"
Timestamp(d) == (20220100 + d) * 100

\* The upstream's view count of a page on a day (non-negative)
ViewsOf(title, d) == (title[1] - 60) * d * d + 2 * d

\* Date sequences of a well-formed response: distinct days, in any order
Series ==
    UNION { {s \in [1..n -> Dates] : \A i, j \in 1..n : i # j => s[i] # s[j]}
            : n \in 0..MaxLen }

ItemsOf(title, s) ==
    [i \in 1..Len(s) |-> [timestamp |-> Timestamp(s[i]), views |-> ViewsOf(title, s[i])]]

OkResponse(items) == [status |-> 200, body |-> [items |-> items]]
\* a non-200 status
NotFound == [status |-> 404, body |-> [detail |-> "Not found."]]
\* a 200 whose JSON object has no "items"
NoItemsResponse == [status |-> 200, body |-> [detail |-> "no items"]]
\* a 200 with an item that has no "timestamp"
NoTimestampResponse(title) ==
    OkResponse(<<[views |-> ViewsOf(title, 1)]>>)
\* a 200 with a good item followed by an item that has no "views"
NoViewsResponse(title) ==
    OkResponse(<<[timestamp |-> Timestamp(1), views |-> ViewsOf(title, 1)],
                 [timestamp |-> Timestamp(2)]>>)

WellFormedResponses(title) == {OkResponse(ItemsOf(title, s)) : s \in Series}

Responses(title) ==
    WellFormedResponses(title)
        \cup {NotFound, NoItemsResponse, NoTimestampResponse(title), NoViewsResponse(title)}

(***************************************************************************)
(* fetch_pageviews                                                         *)
(***************************************************************************)
\* item["timestamp"][:8] parsed with "%Y%m%d": the date yyyymmdd
DateOf(ts) == ts \div 100

\* data.get("items", [])
GetItems(body) == IF "items" \in DOMAIN body THEN body.items ELSE <<>>

\* item["timestamp"] or item["views"] raises KeyError
ItemRaises(item) == ~("timestamp" \in DOMAIN item) \/ ~("views" \in DOMAIN item)

NoMessage == <<>>
Message(text, page, status) == [msg |-> text, page |-> page, status |-> status]

\* a fetch that drops the items it cannot read instead of raising
FetchSkipping(title, response) ==
    IF response.status # 200
    THEN [raised |-> FALSE, df |-> <<>>,
          printed |-> <<Message("Error fetching data", title, response.status)>>]
    ELSE LET items == SelectSeq(GetItems(response.body), LAMBDA it : ~ItemRaises(it))
         IN  [raised |-> FALSE,
              df |-> [i \in 1..Len(items) |->
                        [date |-> DateOf(items[i].timestamp), views |-> items[i].views]],
              printed |-> NoMessage]

\* fetch_pageviews(page_title, ...) on the upstream's response: whether it
\* raises, the DataFrame it returns, and what it prints
Fetch(title, response) ==
    IF response.status # 200
    THEN [raised |-> FALSE, df |-> <<>>,
          printed |-> <<Message("Error fetching data", title, response.status)>>]
    ELSE LET items == GetItems(response.body)
         IN  IF \E i \in 1..Len(items) : ItemRaises(items[i])
             THEN [raised |-> TRUE, df |-> <<>>, printed |-> NoMessage]
             ELSE [raised |-> FALSE,
                   df |-> [i \in 1..Len(items) |->
                             [date |-> DateOf(items[i].timestamp), views |-> items[i].views]],
                   printed |-> NoMessage]

(***************************************************************************)
(* analyze_wiki_pages: the pure parts                                      *)
(***************************************************************************)
\* not page1_title and not page2_title
BadTitlesBoth(t1, t2) == (t1 = None \/ t1 = <<>>) /\ (t2 = None \/ t2 = <<>>)

\* not page1_title or not page2_title
BadTitles(t1, t2) == (t1 = None \/ t1 = <<>>) \/ (t2 = None \/ t2 = <<>>)

\* df1.empty and df2.empty
BothEmpty(d1, d2) == d1 = <<>> /\ d2 = <<>>

\* df1.empty or df2.empty
EitherEmpty(d1, d2) == d1 = <<>> \/ d2 = <<>>

\* A missing cell of the merged table (pandas NaN); view counts are >= 0
NaN == -1

DatesIn(df) == {df[i].date : i \in 1..Len(df)}

\* the views of the row of df with this date, NaN if there is none
Lookup(df, date) ==
    IF date \in DatesIn(df)
    THEN df[CHOOSE i \in 1..Len(df) : df[i].date = date].views
    ELSE NaN

\* pd.merge(df1, df2, on="date", how="outer"), dates distinct within d1 and
\* within d2: a row per date of either frame
OuterJoin(d1, d2) ==
    LET rightOnly == SelectSeq(d2, LAMBDA r : r.date \notin DatesIn(d1))
    IN  [i \in 1..Len(d1) |->
            [date |-> d1[i].date, views1 |-> d1[i].views,
             views2 |-> Lookup(d2, d1[i].date)]]
        \o
        [i \in 1..Len(rightOnly) |->
            [date |-> rightOnly[i].date, views1 |-> NaN,
             views2 |-> rightOnly[i].views]]

RemoveAt(s, i) == SubSeq(s, 1, i - 1) \o SubSeq(s, i + 1, Len(s))

\* .sort_values("date")
RECURSIVE SortValues(_)
SortValues(rows) ==
    IF rows = <<>> THEN <<>>
    ELSE LET m == CHOOSE i \in 1..Len(rows) :
                     /\ \A j \in 1..Len(rows) : rows[i].date <= rows[j].date
                     /\ \A j \in 1..(i - 1) : rows[j].date # rows[i].date
         IN  <<rows[m]>> \o SortValues(RemoveAt(rows, m))

\* pd.merge(...).sort_values("date")
MergeFrames(d1, d2) == SortValues(OuterJoin(d1, d2))

(***************************************************************************)
(* The process-wide generator of numpy.random.  Its state is one of 16     *)
(* values; a draw steps the state and yields a digit.                      *)
(***************************************************************************)
GenStates == 0..15

\* one step of the generator
NextGen(g) == (5 * g + 3) % 16

\* a seed call that leaves the generator as it is
KeepGen(g) == g

\* np.random.seed(42), from any state g
Seed42(g) == 42 % 16

\* a draw of n values that does not advance the generator
RECURSIVE RandintStuck(_, _)
RandintStuck(g, n) ==
    IF n = 0 THEN [vals |-> <<>>, state |-> g]
    ELSE LET rest == RandintStuck(NextGen(g), n - 1)
         IN  [vals |-> <<NextGen(g) % 10>> \o rest.vals, state |-> g]

\* np.random.randint(0, 10, size=n) from state g: the n values and the
\* state afterwards
RECURSIVE Randint(_, _)
Randint(g, n) ==
    IF n = 0 THEN [vals |-> <<>>, state |-> g]
    ELSE LET rest == Randint(NextGen(g), n - 1)
         IN  [vals |-> <<NextGen(g) % 10>> \o rest.vals, state |-> rest.state]

\* .astype(int) raises on a column with a NaN
CastRaises(views) == \E i \in 1..Len(views) : views[i] = NaN

\* (views * 0.1 + noise).astype(int) on a column without NaN: the view
\* counts are non-negative integers, so truncation is floor(views / 10)
SharesOf(views, noise) == [i \in 1..Len(views) |-> (views[i] \div 10) + noise[i]]

Column1(rows) == [i \in 1..Len(rows) |-> rows[i].views1]
Column2(rows) == [i \in 1..Len(rows) |-> rows[i].views2]

(***************************************************************************)
(* State.  Two invocation contexts share the generator; everything else    *)
(* is local to an invocation.                                              *)
(***************************************************************************)
Procs == {"run1", "run2"}

VARIABLES
    upstream,      \* the answers the metrics service may give for each page title
    gen,           \* state of the process-wide generator
    pc,            \* where each invocation is
    url1, url2,    \* arguments of the invocation
    title1, title2,\* page1_title, page2_title
    response1, response2, \* the responses of the two requests
    df1, df2,      \* the fetched frames
    merged,        \* df_merged: rows (date, views1, views2)
    shares1, shares2, \* the two share columns of df_merged
    outcome,       \* how the invocation ended
    printed,       \* what it printed
    requests,      \* the HTTP requests it issued, in order
    interfered,    \* another invocation used the generator between this
                   \* invocation's seed and its last draw
    malformedSeen, \* an earlier invocation ended on a malformed response
    dirtySeed,     \* the latest seed reset of a running invocation found the
                   \* generator in another state than the seeded one
    exUrl, exTitle, exPc  \* extract_page_title applied to one URL

vars == <<upstream, gen, pc, url1, url2, title1, title2, response1, response2,
          df1, df2, merged,
          shares1, shares2, outcome, printed, requests, interfered,
          malformedSeen, dirtySeed, exUrl, exTitle, exPc>>

locals == <<url1, url2, title1, title2, response1, response2, df1, df2, merged,
            shares1, shares2,
            outcome, printed, requests>>

extractVars == <<exUrl, exTitle, exPc>>

\* no response yet
NoResponse == [status |-> 0, body |-> [detail |-> "none"]]

AllIdle == \A q \in Procs : pc[q] = "idle"

\* the state of the invocation contexts before any invocation
IdleLocals ==
    /\ pc = [p \in Procs |-> "idle"]
    /\ url1 = [p \in Procs |-> <<>>]
    /\ url2 = [p \in Procs |-> <<>>]
    /\ title1 = [p \in Procs |-> None]
    /\ title2 = [p \in Procs |-> None]
    /\ response1 = [p \in Procs |-> NoResponse]
    /\ response2 = [p \in Procs |-> NoResponse]
    /\ df1 = [p \in Procs |-> <<>>]
    /\ df2 = [p \in Procs |-> <<>>]
    /\ merged = [p \in Procs |-> <<>>]
    /\ shares1 = [p \in Procs |-> <<>>]
    /\ shares2 = [p \in Procs |-> <<>>]
    /\ outcome = [p \in Procs |-> "running"]
    /\ printed = [p \in Procs |-> <<>>]
    /\ requests = [p \in Procs |-> <<>>]
    /\ interfered = [p \in Procs |-> FALSE]
    /\ malformedSeen = FALSE
    /\ dirtySeed = FALSE

Init ==
    /\ upstream = [t \in PageTitles |-> Responses(t)]
    /\ gen \in GenStates
    /\ IdleLocals
    /\ exUrl = <<>>
    /\ exTitle = None
    /\ exPc = "start"

(***************************************************************************)
(* analyze_wiki_pages, step by step.                                       *)
(***************************************************************************)
\* Lines 68-75: extract both titles; return None on a bad one.
Invoke(p) ==
    /\ pc[p] = "idle"
    /\ \E u1, u2 \in PipelineURLs :
         LET t1 == extract_page_title(u1)
             t2 == extract_page_title(u2)
         IN  /\ url1' = [url1 EXCEPT ![p] = u1]
             /\ url2' = [url2 EXCEPT ![p] = u2]
             /\ title1' = [title1 EXCEPT ![p] = t1]
             /\ title2' = [title2 EXCEPT ![p] = t2]
             /\ IF BadTitles(t1, t2)
                THEN /\ printed' = [printed EXCEPT ![p] =
                            <<Message("Could not extract page title", <<>>, 0)>>]
                     /\ outcome' = [outcome EXCEPT ![p] = "BadInput"]
                     /\ pc' = [pc EXCEPT ![p] = "done"]
                ELSE /\ printed' = [printed EXCEPT ![p] =
                            <<Message("Fetching data", <<>>, 0)>>]
                     /\ outcome' = outcome
                     /\ pc' = [pc EXCEPT ![p] = "fetch1"]
    /\ UNCHANGED <<upstream, gen, response1, response2, df1, df2, merged, shares1,
                   shares2, requests, interfered, malformedSeen, dirtySeed,
                   extractVars>>

\* Line 76: df1 = fetch_pageviews(page1_title, ...)
FetchA(p) ==
    /\ pc[p] = "fetch1"
    /\ \E resp \in upstream[title1[p]] :
       LET r == Fetch(title1[p], resp)
       IN  /\ requests' = [requests EXCEPT ![p] = Append(@, title1[p])]
           /\ response1' = [response1 EXCEPT ![p] = resp]
           /\ printed' = [printed EXCEPT ![p] = @ \o r.printed]
           /\ IF r.raised
              THEN /\ outcome' = [outcome EXCEPT ![p] = "MalformedResponse"]
                   /\ pc' = [pc EXCEPT ![p] = "done"]
                   /\ df1' = df1
              ELSE /\ df1' = [df1 EXCEPT ![p] = r.df]
                   /\ pc' = [pc EXCEPT ![p] = "fetch2"]
                   /\ outcome' = outcome
    /\ UNCHANGED <<upstream, gen, url1, url2, title1, title2, response2, df2, merged,
                   shares1, shares2, interfered, malformedSeen, dirtySeed, extractVars>>

\* a second fetch that is skipped when the first frame is empty
FetchBShortCircuit(p) ==
    /\ pc[p] = "fetch2"
    /\ \E resp \in upstream[title2[p]] :
       LET r == Fetch(title2[p], resp)
       IN  IF df1[p] = <<>>
           THEN /\ pc' = [pc EXCEPT ![p] = "check"]
                /\ UNCHANGED <<requests, response2, printed, outcome, df2>>
           ELSE /\ requests' = [requests EXCEPT ![p] = Append(@, title2[p])]
                /\ response2' = [response2 EXCEPT ![p] = resp]
                /\ printed' = [printed EXCEPT ![p] = @ \o r.printed]
                /\ IF r.raised
                   THEN /\ outcome' = [outcome EXCEPT ![p] = "MalformedResponse"]
                        /\ pc' = [pc EXCEPT ![p] = "done"]
                        /\ df2' = df2
                   ELSE /\ df2' = [df2 EXCEPT ![p] = r.df]
                        /\ pc' = [pc EXCEPT ![p] = "check"]
                        /\ outcome' = outcome
    /\ UNCHANGED <<upstream, gen, url1, url2, title1, title2, response1, df1, merged,
                   shares1, shares2, interfered, malformedSeen, dirtySeed, extractVars>>

\* Line 77: df2 = fetch_pageviews(page2_title, ...)
FetchB(p) ==
    /\ pc[p] = "fetch2"
    /\ \E resp \in upstream[title2[p]] :
       LET r == Fetch(title2[p], resp)
       IN  /\ requests' = [requests EXCEPT ![p] = Append(@, title2[p])]
           /\ response2' = [response2 EXCEPT ![p] = resp]
           /\ printed' = [printed EXCEPT ![p] = @ \o r.printed]
           /\ IF r.raised
              THEN /\ outcome' = [outcome EXCEPT ![p] = "MalformedResponse"]
                   /\ pc' = [pc EXCEPT ![p] = "done"]
                   /\ df2' = df2
              ELSE /\ df2' = [df2 EXCEPT ![p] = r.df]
                   /\ pc' = [pc EXCEPT ![p] = "check"]
                   /\ outcome' = outcome
    /\ UNCHANGED <<upstream, gen, url1, url2, title1, title2, response1, df1, merged,
                   shares1, shares2, interfered, malformedSeen, dirtySeed, extractVars>>

\* Lines 79-88: return None when a frame is empty, else rename and merge.
MergeStep(p) ==
    /\ pc[p] = "check"
    /\ IF EitherEmpty(df1[p], df2[p])
       THEN /\ printed' = [printed EXCEPT ![p] = Append(@, Message("No data available", <<>>, 0))]
            /\ outcome' = [outcome EXCEPT ![p] = "NoData"]
            /\ pc' = [pc EXCEPT ![p] = "done"]
            /\ merged' = merged
       ELSE /\ merged' = [merged EXCEPT ![p] = MergeFrames(df1[p], df2[p])]
            /\ pc' = [pc EXCEPT ![p] = "seed"]
            /\ UNCHANGED <<printed, outcome>>
    /\ UNCHANGED <<upstream, gen, url1, url2, title1, title2, response1, response2,
                   df1, df2, shares1, shares2, requests, interfered, malformedSeen,
                   dirtySeed, extractVars>>

\* an invocation that has seeded the generator and not yet finished drawing
Drawing(q) == pc[q] \in {"shares1", "shares2"}

\* the interference record after invocation p used the generator
Interfere(p, seeding) ==
    [q \in Procs |->
        IF q = p THEN (IF seeding THEN FALSE ELSE interfered[q])
        ELSE interfered[q] \/ Drawing(q)]

\* Line 92: np.random.seed(42)
Seed(p) ==
    /\ pc[p] = "seed"
    /\ gen' = Seed42(gen)
    /\ pc' = [pc EXCEPT ![p] = "shares1"]
    /\ interfered' = Interfere(p, TRUE)
    /\ dirtySeed' = (gen # Seed42(gen))
    /\ UNCHANGED <<upstream, locals, malformedSeen, extractVars>>

\* Lines 93-94: the shares column of page 1.  With equal titles both views
\* columns were renamed alike, the merge suffixed them, and the column
\* lookup raises before any draw.  Otherwise the draw is made, and the cast
\* raises when the views column has a NaN.
SharesA(p) ==
    /\ pc[p] = "shares1"
    /\ IF title1[p] = title2[p]
       THEN /\ outcome' = [outcome EXCEPT ![p] = "ColumnError"]
            /\ pc' = [pc EXCEPT ![p] = "done"]
            /\ UNCHANGED <<gen, shares1, interfered>>
       ELSE LET draw == Randint(gen, Len(merged[p]))
            IN  /\ gen' = draw.state
                /\ interfered' = Interfere(p, FALSE)
                /\ IF CastRaises(Column1(merged[p]))
                   THEN /\ outcome' = [outcome EXCEPT ![p] = "CastError"]
                        /\ pc' = [pc EXCEPT ![p] = "done"]
                        /\ shares1' = shares1
                   ELSE /\ shares1' = [shares1 EXCEPT ![p] =
                                          SharesOf(Column1(merged[p]), draw.vals)]
                        /\ pc' = [pc EXCEPT ![p] = "shares2"]
                        /\ outcome' = outcome
    /\ UNCHANGED <<upstream, url1, url2, title1, title2, response1, response2, df1,
                   df2, merged, shares2, printed, requests, malformedSeen, dirtySeed,
                   extractVars>>

\* Lines 95-124: the shares column of page 2, the plots, return df_merged.
SharesB(p) ==
    /\ pc[p] = "shares2"
    /\ LET draw == Randint(gen, Len(merged[p]))
       IN  /\ gen' = draw.state
           /\ interfered' = Interfere(p, FALSE)
           /\ IF CastRaises(Column2(merged[p]))
              THEN /\ outcome' = [outcome EXCEPT ![p] = "CastError"]
                   /\ shares2' = shares2
              ELSE /\ shares2' = [shares2 EXCEPT ![p] =
                                     SharesOf(Column2(merged[p]), draw.vals)]
                   /\ outcome' = [outcome EXCEPT ![p] = "Table"]
           /\ pc' = [pc EXCEPT ![p] = "done"]
    /\ UNCHANGED <<upstream, url1, url2, title1, title2, response1, response2, df1,
                   df2, merged, shares1, printed, requests, malformedSeen, dirtySeed,
                   extractVars>>

\* Lines 170-173: the caller takes the result (or the exception leaves the
\* callback); nothing of the invocation is kept.
Return(p) ==
    /\ pc[p] = "done"
    /\ pc' = [pc EXCEPT ![p] = "idle"]
    /\ url1' = [url1 EXCEPT ![p] = <<>>]
    /\ url2' = [url2 EXCEPT ![p] = <<>>]
    /\ title1' = [title1 EXCEPT ![p] = None]
    /\ title2' = [title2 EXCEPT ![p] = None]
    /\ response1' = [response1 EXCEPT ![p] = NoResponse]
    /\ response2' = [response2 EXCEPT ![p] = NoResponse]
    /\ df1' = [df1 EXCEPT ![p] = <<>>]
    /\ df2' = [df2 EXCEPT ![p] = <<>>]
    /\ merged' = [merged EXCEPT ![p] = <<>>]
    /\ shares1' = [shares1 EXCEPT ![p] = <<>>]
    /\ shares2' = [shares2 EXCEPT ![p] = <<>>]
    /\ outcome' = [outcome EXCEPT ![p] = "running"]
    /\ printed' = [printed EXCEPT ![p] = <<>>]
    /\ requests' = [requests EXCEPT ![p] = <<>>]
    /\ interfered' = [interfered EXCEPT ![p] = FALSE]
    /\ malformedSeen' = (malformedSeen \/ outcome[p] = "MalformedResponse")
    /\ dirtySeed' = FALSE
    /\ UNCHANGED <<upstream, gen, extractVars>>

\* Other code of the process uses the generator between invocations.
OtherUse ==
    /\ AllIdle
    /\ \E g \in GenStates : g # gen /\ gen' = g
    /\ UNCHANGED <<upstream, pc, locals, interfered, malformedSeen, dirtySeed,
                   extractVars>>

\* The notebook kernel runs one button callback at a time: all invocations
\* of the notebook as it is run happen one after the other in one context.
SerialProcs == {"run1"}

Next ==
    \/ \E p \in SerialProcs : Invoke(p)
    \/ \E p \in SerialProcs : FetchA(p)
    \/ \E p \in SerialProcs : FetchB(p)
    \/ \E p \in SerialProcs : MergeStep(p)
    \/ \E p \in SerialProcs : Seed(p)
    \/ \E p \in SerialProcs : SharesA(p)
    \/ \E p \in SerialProcs : SharesB(p)
    \/ \E p \in SerialProcs : Return(p)
    \/ OtherUse

\* Invocations one at a time, as the notebook runs them.
Spec == Init /\ [][Next]_vars

(***************************************************************************)
(* Overlapping invocations: nothing in analyze_wiki_pages or in            *)
(* on_run_button_clicked keeps a second invocation from starting.          *)
(***************************************************************************)
NextConc ==
    \/ \E p \in Procs : Invoke(p)
    \/ \E p \in Procs : FetchA(p)
    \/ \E p \in Procs : FetchB(p)
    \/ \E p \in Procs : MergeStep(p)
    \/ \E p \in Procs : Seed(p)
    \/ \E p \in Procs : SharesA(p)
    \/ \E p \in Procs : SharesB(p)
    \/ \E p \in Procs : Return(p)

\* Two non-empty well-formed series over the same dates in the same order
SameDates(r1, r2) ==
    /\ Len(r1.body.items) > 0
    /\ Len(r1.body.items) = Len(r2.body.items)
    /\ \A i \in 1..Len(r1.body.items) :
          r1.body.items[i].timestamp = r2.body.items[i].timestamp

\* The service answers each page with one fixed well-formed series, the two
\* pages' series covering the same dates: every invocation with two
\* different titles is a successful one.
InitConc ==
    /\ \E r1 \in WellFormedResponses(<<65>>), r2 \in WellFormedResponses(<<68>>) :
          /\ SameDates(r1, r2)
          /\ upstream = (<<65>> :> {r1}) @@ (<<68>> :> {r2})
    /\ gen = 0
    /\ IdleLocals
    /\ exUrl = <<>>
    /\ exTitle = None
    /\ exPc = "start"

SpecConc == InitConc /\ [][NextConc]_vars

(***************************************************************************)
(* extract_page_title on its own.                                          *)
(***************************************************************************)
InitExtract ==
    /\ upstream = [t \in PageTitles |-> Responses(t)]
    /\ gen = 0
    /\ IdleLocals
    /\ exUrl \in URLs
    /\ exTitle = None
    /\ exPc = "start"

ExtractTitle ==
    /\ exPc = "start"
    /\ exTitle' = extract_page_title(exUrl)
    /\ exPc' = "done"
    /\ UNCHANGED <<upstream, gen, pc, locals, interfered, malformedSeen, dirtySeed,
                   exUrl>>

NextExtract == ExtractTitle

SpecExtract == InitExtract /\ [][NextExtract]_vars

(***************************************************************************)
(* Vocabulary of the properties.                                           *)
(***************************************************************************)
Done(p) == pc[p] = "done"

Issued(resp) == resp # NoResponse

\* a 200 response with an items list in which every item has both fields
WellFormed(resp) ==
    /\ resp.status = 200
    /\ "items" \in DOMAIN resp.body
    /\ \A i \in 1..Len(resp.body.items) :
          /\ "timestamp" \in DOMAIN resp.body.items[i]
          /\ "views" \in DOMAIN resp.body.items[i]

\* a 200 response with an item that lacks "timestamp" or "views"
ItemLacksField(resp) ==
    /\ resp.status = 200
    /\ "items" \in DOMAIN resp.body
    /\ \E i \in 1..Len(resp.body.items) :
          \/ ~("timestamp" \in DOMAIN resp.body.items[i])
          \/ ~("views" \in DOMAIN resp.body.items[i])

\* a 200 response without an items list
ItemsMissing(resp) == resp.status = 200 /\ ~("items" \in DOMAIN resp.body)

\* a response from which the fetch yields an empty sequence, as the spec
\* lists them: a non-200 status, or a 200 with an empty items list
YieldsEmpty(resp) ==
    \/ (Issued(resp) /\ resp.status # 200)
    \/ (WellFormed(resp) /\ resp.body.items = <<>>)

\* the dates and counts a well-formed response carries
RecordDates(resp) == {resp.body.items[i].timestamp \div 100 : i \in 1..Len(resp.body.items)}
RecordViews(resp, date) ==
    LET i == CHOOSE k \in 1..Len(resp.body.items) :
                 resp.body.items[k].timestamp \div 100 = date
    IN  resp.body.items[i].views

\* the generator right after np.random.seed(42), and its first n draws
SeededState == 42 % 16
RECURSIVE SeededDraws(_, _)
SeededDraws(g, n) ==
    IF n = 0 THEN <<>> ELSE <<((5 * g + 3) % 16) % 10>> \o SeededDraws((5 * g + 3) % 16, n - 1)

Floor10(v) == v \div 10

Result(p) ==
    [outcome |-> outcome[p], merged |-> merged[p],
     shares1 |-> shares1[p], shares2 |-> shares2[p]]

NoTable(o) == [outcome |-> o, merged |-> <<>>, shares1 |-> <<>>, shares2 |-> <<>>]

\* What one invocation on these URLs and responses yields in a process that
\* has done nothing else: a function of the four inputs only.
AloneResult(u1, u2, r1, r2) ==
    LET t1 == extract_page_title(u1)
        t2 == extract_page_title(u2)
    IN  IF BadTitles(t1, t2) THEN NoTable("BadInput")
        ELSE IF Fetch(t1, r1).raised THEN NoTable("MalformedResponse")
        ELSE IF Fetch(t2, r2).raised THEN NoTable("MalformedResponse")
        ELSE IF EitherEmpty(Fetch(t1, r1).df, Fetch(t2, r2).df) THEN NoTable("NoData")
        ELSE LET m == MergeFrames(Fetch(t1, r1).df, Fetch(t2, r2).df)
                 n == Len(m)
                 r == SeededDraws(SeededState, 2 * n)
                 s1 == [i \in 1..n |-> Floor10(m[i].views1) + r[i]]
                 s2 == [i \in 1..n |-> Floor10(m[i].views2) + r[n + i]]
             IN  IF t1 = t2
                 THEN [outcome |-> "ColumnError", merged |-> m,
                       shares1 |-> <<>>, shares2 |-> <<>>]
                 ELSE IF \E i \in 1..n : m[i].views1 = NaN
                 THEN [outcome |-> "CastError", merged |-> m,
                       shares1 |-> <<>>, shares2 |-> <<>>]
                 ELSE IF \E i \in 1..n : m[i].views2 = NaN
                 THEN [outcome |-> "CastError", merged |-> m,
                       shares1 |-> s1, shares2 |-> <<>>]
                 ELSE [outcome |-> "Table", merged |-> m, shares1 |-> s1, shares2 |-> s2]

(***************************************************************************)
(* Properties.                                                             *)
(***************************************************************************)

\* C1: for two non-empty well-formed series (dates distinct within each,
\* here for two different page titles) the invocation returns a table with
\* exactly one row per date of the union of the two date sets, in ascending
\* date order, each views cell holding the page's count for the date or
\* being absent, also when the two date sets differ.
C1_ReturnsUnionTable ==
    \A p \in Procs :
        ( /\ Done(p)
          /\ title1[p] # title2[p]
          /\ WellFormed(response1[p]) /\ response1[p].body.items # <<>>
          /\ WellFormed(response2[p]) /\ response2[p].body.items # <<>> )
        =>
        LET dates == RecordDates(response1[p]) \cup RecordDates(response2[p])
            m == merged[p]
        IN  /\ outcome[p] = "Table"
            /\ Len(m) = Cardinality(dates)
            /\ {m[i].date : i \in 1..Len(m)} = dates
            /\ \A i \in 1..(Len(m) - 1) : m[i].date < m[i + 1].date
            /\ \A i \in 1..Len(m) :
                 /\ m[i].views1 = IF m[i].date \in RecordDates(response1[p])
                                  THEN RecordViews(response1[p], m[i].date) ELSE NaN
                 /\ m[i].views2 = IF m[i].date \in RecordDates(response2[p])
                                  THEN RecordViews(response2[p], m[i].date) ELSE NaN

\* C2: when every response of the invocation is a non-200 status or a
\* well-formed 200 (here for two different page titles), no exception
\* escapes: the invocation ends with a table or with None.
C2_NoExceptionOnWellFormed ==
    \A p \in Procs :
        ( /\ Done(p)
          /\ title1[p] # title2[p]
          /\ \A resp \in {response1[p], response2[p]} :
                Issued(resp) => (resp.status # 200 \/ WellFormed(resp)) )
        => outcome[p] \in {"Table", "BadInput", "NoData"}

\* C3: when extract_page_title yields None for either URL, the invocation
\* returns None with the bad-input message and issues no HTTP request.
C3_BadInputNoRequest ==
    \A p \in Procs :
        ( /\ pc[p] # "idle"
          /\ (extract_page_title(url1[p]) = None \/ extract_page_title(url2[p]) = None) )
        =>
        /\ Done(p)
        /\ outcome[p] = "BadInput"
        /\ printed[p] = <<Message("Could not extract page title", <<>>, 0)>>
        /\ requests[p] = <<>>
        /\ response1[p] = NoResponse /\ response2[p] = NoResponse

\* an invocation ended on one URL without a title, the other URL being fine
C3_Witness ==
    \E p \in Procs :
        /\ Done(p)
        /\ extract_page_title(url1[p]) = None
        /\ extract_page_title(url2[p]) \in PageTitles
        /\ outcome[p] = "BadInput"

\* C4 as stated: when at least one of the two fetches yields an empty
\* sequence, the invocation ends in NoData: None with the no-data message,
\* no exception, neither merge nor shares.
C4_EmptyFetchEndsNoData ==
    \A p \in Procs :
        (Done(p) /\ (YieldsEmpty(response1[p]) \/ YieldsEmpty(response2[p])))
        =>
        /\ outcome[p] = "NoData"
        /\ merged[p] = <<>> /\ shares1[p] = <<>> /\ shares2[p] = <<>>

\* C4 amended: when both fetches return and at least one of them returns an
\* empty frame, the invocation ends in NoData (None, the no-data message
\* last, no merge, no shares); the merge, the seed reset and the
\* shares are only reached with two non-empty frames; and when page A's
\* fetch yields an empty sequence and page B's response has an item lacking
\* a field, the invocation ends in MalformedResponse instead.
C4_BothReturnedEmptyEndsNoData ==
    \A p \in Procs :
        /\ ( /\ Done(p)
             /\ Issued(response1[p]) /\ ~ItemLacksField(response1[p])
             /\ Issued(response2[p]) /\ ~ItemLacksField(response2[p])
             /\ (df1[p] = <<>> \/ df2[p] = <<>>) )
           =>
           /\ outcome[p] = "NoData"
           /\ printed[p][Len(printed[p])] = Message("No data available", <<>>, 0)
           /\ merged[p] = <<>> /\ shares1[p] = <<>> /\ shares2[p] = <<>>
        /\ (YieldsEmpty(response1[p]) \/ YieldsEmpty(response2[p]))
           => /\ pc[p] \notin {"seed", "shares1", "shares2"}
              /\ merged[p] = <<>>
        /\ (Done(p) /\ YieldsEmpty(response1[p]) /\ ItemLacksField(response2[p]))
           => outcome[p] = "MalformedResponse"

\* page A came back non-200, page B with a non-empty series: NoData
C4_Witness ==
    \E p \in Procs :
        /\ Done(p)
        /\ outcome[p] = "NoData"
        /\ response1[p].status = 404
        /\ df2[p] # <<>>

\* C5: on a successful run with N rows, with r the first 2N draws after the
\* seed reset, row i has shares A = floor(0.1 * views A) + r[i] and shares
\* B = floor(0.1 * views B) + r[N+i]; page A's draws are consumed before
\* page B's; every share lies within [floor, floor + 9].
C5_SharesFollowSeededDraws ==
    \A p \in Procs :
        LET n == Len(merged[p])
            r == SeededDraws(SeededState, 2 * n)
        IN  /\ (Done(p) /\ outcome[p] = "Table")
               =>
               /\ Len(shares1[p]) = n /\ Len(shares2[p]) = n
               /\ \A i \in 1..n :
                    /\ shares1[p][i] = Floor10(merged[p][i].views1) + r[i]
                    /\ shares2[p][i] = Floor10(merged[p][i].views2) + r[n + i]
                    /\ shares1[p][i] - Floor10(merged[p][i].views1) \in 0..9
                    /\ shares2[p][i] - Floor10(merged[p][i].views2) \in 0..9
            /\ pc[p] = "shares2"
               =>
               /\ shares2[p] = <<>>
               /\ Len(shares1[p]) = n
               /\ \A i \in 1..n : shares1[p][i] = Floor10(merged[p][i].views1) + r[i]

\* a table of at least two rows whose two pages' draws are not all alike
C5_Witness ==
    \E p \in Procs :
        /\ Done(p)
        /\ outcome[p] = "Table"
        /\ Len(merged[p]) >= 2
        /\ \E i \in 1..Len(merged[p]) :
              shares1[p][i] - Floor10(merged[p][i].views1)
                 # shares2[p][i] - Floor10(merged[p][i].views2)

\* C6: with invocations one at a time and any other use of the generator in
\* between, the result of an invocation (outcome, table, share columns) is
\* the one its URLs and responses give in a process that did nothing else:
\* equal inputs give equal results, whatever state the generator was left in.
C6_ResultDependsOnInputsOnly ==
    \A p \in Procs :
        Done(p) => Result(p) = AloneResult(url1[p], url2[p], response1[p], response2[p])

\* a table returned by an invocation whose seed reset found the generator
\* in another state than the seeded one
C6_Witness ==
    \E p \in Procs :
        /\ Done(p)
        /\ outcome[p] = "Table"
        /\ dirtySeed
        /\ Len(merged[p]) >= 2

\* C7: for a URL whose path begins with "/wiki/" extract_page_title returns
\* the percent-decoded whole remainder of the path, also when the remainder
\* contains "/wiki/" or slashes; for any other URL it returns None.
C7_ReturnsWholeRemainder ==
    exPc = "done" =>
        exTitle = IF StartsWith(UrlPath(exUrl), WikiPrefix)
                  THEN unquote(SplitRemainder(UrlPath(exUrl)))
                  ELSE None

\* C8 as stated: a 200 response whose items list is missing, or with an item
\* lacking timestamp or views, ends the invocation in MalformedResponse.
C8_UnexpectedShapeRaises ==
    \A p \in Procs :
        ( /\ Done(p)
          /\ \E resp \in {response1[p], response2[p]} :
                ItemsMissing(resp) \/ ItemLacksField(resp) )
        => outcome[p] = "MalformedResponse"

\* C8 amended: a 200 response with an item lacking timestamp or views ends
\* the invocation in MalformedResponse, with no merge and no shares
\* derived; a 200 response without an items list is read as an empty
\* series and, unless the other response has such an item, the invocation
\* ends in NoData; an invocation after a malformed one gives the result it
\* gives in a process that did nothing else.
C8_MissingFieldRaises ==
    \A p \in Procs :
        /\ ( /\ Done(p)
             /\ (ItemLacksField(response1[p]) \/ ItemLacksField(response2[p])) )
           =>
           /\ outcome[p] = "MalformedResponse"
           /\ merged[p] = <<>> /\ shares1[p] = <<>> /\ shares2[p] = <<>>
        /\ ( /\ Done(p)
             /\ (ItemsMissing(response1[p]) \/ ItemsMissing(response2[p]))
             /\ ~ItemLacksField(response2[p]) )
           => outcome[p] = "NoData"
        /\ (Done(p) /\ malformedSeen)
           => Result(p) = AloneResult(url1[p], url2[p], response1[p], response2[p])

\* a table returned after an earlier invocation ended on a malformed response
C8_Witness ==
    \E p \in Procs :
        /\ malformedSeen
        /\ Done(p)
        /\ outcome[p] = "Table"

\* C9 as stated: whenever both titles are extracted, the invocation issues
\* exactly two HTTP requests.
C9_AlwaysTwoRequests ==
    \A p \in Procs :
        (Done(p) /\ ~BadTitles(title1[p], title2[p]))
        => requests[p] = <<title1[p], title2[p]>>

\* C9 amended: whenever both titles are extracted, the invocation issues
\* page A's request first and page B's only after page A's response has been
\* handled, each at most once; it ends with exactly two requests unless
\* page A's response has an item lacking a field, in which case it ends in
\* MalformedResponse after page A's request alone; a non-200 status for page
\* A is reported, yields an empty frame without raising, and page B's
\* request is still issued.
C9_RequestsInOrder ==
    \A p \in Procs :
        /\ pc[p] = "fetch1" => requests[p] = <<>>
        /\ pc[p] = "fetch2"
           => /\ requests[p] = <<title1[p]>>
              /\ Issued(response1[p]) /\ ~Issued(response2[p])
              /\ ~ItemLacksField(response1[p])
        /\ pc[p] \in {"check", "seed", "shares1", "shares2"}
           => requests[p] = <<title1[p], title2[p]>>
        /\ (Done(p) /\ ~BadTitles(title1[p], title2[p]))
           => IF ItemLacksField(response1[p])
              THEN /\ requests[p] = <<title1[p]>>
                   /\ outcome[p] = "MalformedResponse"
                   /\ ~Issued(response2[p])
              ELSE /\ requests[p] = <<title1[p], title2[p]>>
                   /\ Issued(response2[p])
        /\ (pc[p] \notin {"idle", "fetch1"} /\ Issued(response1[p])
               /\ response1[p].status # 200)
           => /\ df1[p] = <<>>
              /\ printed[p][2] = Message("Error fetching data", title1[p], response1[p].status)
              /\ (Done(p) => /\ requests[p] = <<title1[p], title2[p]>>
                             /\ outcome[p] \in {"NoData", "MalformedResponse"})

\* page A answered 404, and page B was still asked and answered with data
C9_Witness ==
    \E p \in Procs :
        /\ Done(p)
        /\ response1[p].status = 404
        /\ requests[p] = <<title1[p], title2[p]>>
        /\ df2[p] # <<>>

\* C10: with overlapping invocations the share columns of a successful
\* invocation can differ from the ones it produces alone, and they differ
\* only if another invocation used the generator between its seed reset and
\* its last draw.
C10_DifferenceNeedsOverlap ==
    \A p \in Procs :
        (Done(p) /\ outcome[p] = "Table" /\ ~interfered[p])
        => Result(p) = AloneResult(url1[p], url2[p], response1[p], response2[p])

\* a successful invocation whose share columns are not the ones it produces alone
C10_Witness ==
    \E p \in Procs :
        /\ Done(p)
        /\ outcome[p] = "Table"
        /\ interfered[p]
        /\ <<shares1[p], shares2[p]>> #
             <<AloneResult(url1[p], url2[p], response1[p], response2[p]).shares1,
               AloneResult(url1[p], url2[p], response1[p], response2[p]).shares2>>

====
